---- MODULE Spec2Model ----
(***************************************************************************)
(* A model of pySMART's DeviceList (src/pySMART/device_list.py): the scan  *)
(* of the system busses, the parsing of `smartctl --scan-open` output, the *)
(* construction of Device objects, _cleanup and the final sorts.           *)
(*                                                                         *)
(* Python strings are sequences of one-character strings; None is the      *)
(* value <<"None">>, which no string equals (its only element is not a     *)
(* character).                                                             *)
(***************************************************************************)
EXTENDS Naturals, Sequences, FiniteSets

VARIABLES
    pc,               \* position in __init__/_initialize, or of the harness
    init,             \* __init__'s argument init
    dofulldevicescan, \* __init__'s argument dofulldevicescan
    stdout,           \* _stdout after decode, None before the scan ran
    lines,            \* the lines of _stdout the for loop has yet to visit
    devices,          \* self.devices
    simpledevicelist, \* self.simpledevicelist
    exc,              \* the exception that left __init__, "none" otherwise
    calls,            \* the (name, interface) pairs Device() was called with
    scan,             \* how the scan command ended, "none" before it ran
    given,            \* self.devices as it was when _cleanup first ran
    runs              \* the number of _cleanup runs so far

vars == <<pc, init, dofulldevicescan, stdout, lines, devices,
          simpledevicelist, exc, calls, scan, given, runs>>

---------------------------------------------------------------------------
(* Bounds of the model.                                                    *)

MaxLines == 3

MaxPieces == 4

MaxDevs == 3

MaxRuns == 2

---------------------------------------------------------------------------
(* Python values.                                                          *)

None == <<"None">>

Min(a, b) == IF a < b THEN a ELSE b

Lower == <<"a","b","c","d","e","f","g","h","i","j","k","l","m",
           "n","o","p","q","r","s","t","u","v","w","x","y","z">>

Digits == <<"0","1","2","3","4","5","6","7","8","9">>

\* ord(c) for the characters the model uses (ASCII).
Ord(c) ==
    IF \E i \in 1..26 : Lower[i] = c
    THEN 96 + (CHOOSE i \in 1..26 : Lower[i] = c)
    ELSE IF \E i \in 1..10 : Digits[i] = c
    THEN 47 + (CHOOSE i \in 1..10 : Digits[i] = c)
    ELSE CASE c = "\t" -> 9
           [] c = "\n" -> 10
           [] c = " "  -> 32
           [] c = ","  -> 44
           [] c = "-"  -> 45
           [] c = "/"  -> 47
           [] c = ":"  -> 58

\* a < b on str: lexicographic by code point.
StrLess(a, b) ==
    \E k \in 0..Min(Len(a), Len(b)) :
        /\ \A j \in 1..k : a[j] = b[j]
        /\ \/ k = Len(a) /\ k < Len(b)
           \/ k < Len(a) /\ k < Len(b) /\ Ord(a[k+1]) < Ord(b[k+1])

\* pat in s
Contains(s, pat) ==
    \E i \in 1..(Len(s) + 1) :
        /\ i + Len(pat) - 1 <= Len(s)
        /\ SubSeq(s, i, i + Len(pat) - 1) = pat

\* s.split(sep) for a one-character sep: never empty, '' splits to [''].
RECURSIVE Split(_, _)
Split(s, sep) ==
    IF \A i \in 1..Len(s) : s[i] # sep
    THEN <<s>>
    ELSE LET k == CHOOSE i \in 1..Len(s) :
                      s[i] = sep /\ \A j \in 1..(i-1) : s[j] # sep
         IN  <<SubSeq(s, 1, k-1)>> \o Split(SubSeq(s, k+1, Len(s)), sep)

\* s.replace(old, new): every non-overlapping occurrence, left to right.
RECURSIVE Replace(_, _, _)
Replace(s, old, new) ==
    IF Len(s) < Len(old) THEN s
    ELSE IF SubSeq(s, 1, Len(old)) = old
    THEN new \o Replace(SubSeq(s, Len(old)+1, Len(s)), old, new)
    ELSE <<s[1]>> \o Replace(Tail(s), old, new)

\* s[0:n]
Slice0(s, n) == SubSeq(s, 1, Min(n, Len(s)))

\* list.sort(key=...): a stable sort, where <<i, j>> \in lt says that the
\* key of seq[i] is less than the key of seq[j].  Each element is put
\* before the first one already placed that it is less than.
SortBy(seq, lt) ==
    LET Ins(placed, i) ==
            LET later == {j \in 1..Len(placed) : <<i, placed[j]>> \in lt}
                p == IF later = {} THEN Len(placed) + 1
                     ELSE CHOOSE j \in later : \A k \in later : j <= k
            IN  SubSeq(placed, 1, p-1) \o <<i>> \o SubSeq(placed, p, Len(placed))
        F[i \in 0..Len(seq)] == IF i = 0 THEN <<>> ELSE Ins(F[i-1], i)
    IN  [k \in 1..Len(seq) |-> seq[F[Len(seq)][k]]]

---------------------------------------------------------------------------
(* String literals of the source.                                          *)

DevPrefix == <<"/","d","e","v","/">>

FailedMark == <<"f","a","i","l","e","d",":">>

Csmi == <<"c","s","m","i">>

Ata == <<"a","t","a">>

Sata == <<"s","a","t","a">>

Scsi == <<"s","c","s","i">>

---------------------------------------------------------------------------
(* The for loop of _initialize over the lines of _stdout.                  *)

\* if not ('failed:' in line or line == ''): the negation, a skipped line.
Skipped(line) == Contains(line, FailedMark) \/ line = <<>>

\* line.split(' ')[0]
FirstField(line) == Split(line, " ")[1]

\* A variant of NameOf that strips one leading '/dev/' only.
NameOf_lstrip(line) ==
    LET field == FirstField(line)
    IN  IF Slice0(field, Len(DevPrefix)) = DevPrefix
        THEN SubSeq(field, Len(DevPrefix) + 1, Len(field))
        ELSE field

\* name = line.split(' ')[0].replace('/dev/', '')
NameOf(line) == Replace(FirstField(line), DevPrefix, <<>>)

\* interface = None; if name[0:4] == 'csmi': interface = 'csmi'
InterfaceOf(name) == IF Slice0(name, 4) = Csmi THEN Csmi ELSE None

\* A variant of ShouldResolve that ignores the flag.
ShouldResolve_always(flag) == TRUE

\* if dofulldevicescan == True:
ShouldResolve(flag) == flag = TRUE

\* { 'name': name, 'interface': interface }
SimpleEntry(name, interface) == [name |-> name, interface |-> interface]

---------------------------------------------------------------------------
(* Device(name, interface=interface): pySMART.device is not part of the    *)
(* modelled file.  A construction yields a record of the five attributes   *)
(* DeviceList reads or writes, or fails.                                   *)

DeviceFailure == [failed |-> TRUE]

S1 == <<"S","1">>

S2 == <<"S","2">>

Cap500 == <<"5","0","0"," ","G","B">>

DeviceRec(name, interface, serial, capacity) ==
    [name |-> name, interface |-> interface, serial |-> serial,
     capacity |-> capacity, sd_name |-> None]

\* What one Device() call of the scan may produce: the interface is the
\* one passed in when it is given, and is found out otherwise; the device
\* is a disk (serial S1, with a capacity) or removable (neither).
Device(name, interface) ==
    LET found == IF interface = None THEN {Ata, Scsi} ELSE {interface}
    IN  {DeviceRec(name, i, S1, Cap500) : i \in found}
        \cup {DeviceRec(name, i, None, None) : i \in found}
        \cup {DeviceFailure}

---------------------------------------------------------------------------
(* _cleanup                                                                *)

\* otherdevice.interface == 'ata' or otherdevice.interface == 'sata'
IsAtaOrSata(otherdevice) ==
    otherdevice.interface = Ata \/ otherdevice.interface = Sata

\* device.serial == otherdevice.serial (None == None is True in Python)
SerialMatch(device, otherdevice) == device.serial = otherdevice.serial

\* A variant of AliasFor that takes the name of the wrong device.
AliasFor_self(device, otherdevice) == device.name

\* device._sd_name = otherdevice.name: the value assigned
AliasFor(device, otherdevice) == otherdevice.name

\* index in to_delete
InList(x, list) == \E k \in 1..Len(list) : list[k] = x

\* A variant of CapacityMarks as an elif of the csmi test.
CapacityMarks_elif(device, index, to_delete) ==
    device.interface # Csmi /\ device.capacity = None /\ ~InList(index, to_delete)

\* if device.capacity == None and index not in to_delete:
CapacityMarks(device, index, to_delete) ==
    device.capacity = None /\ ~InList(index, to_delete)

\* for otherindex, otherdevice in enumerate(self.devices): the iterations
\* from otherindex on, for the csmi device at index.
RECURSIVE InnerLoop(_, _, _)
InnerLoop(st, index, otherindex) ==
    IF otherindex > Len(st.devs) THEN st
    ELSE LET device == st.devs[index]
             otherdevice == st.devs[otherindex]
         IN  IF IsAtaOrSata(otherdevice) /\ SerialMatch(device, otherdevice)
             THEN InnerLoop(
                    [devs |-> [st.devs EXCEPT
                                 ![index].sd_name = AliasFor(device, otherdevice)],
                     to_delete |-> Append(st.to_delete, otherindex)],
                    index, otherindex + 1)
             ELSE InnerLoop(st, index, otherindex + 1)

\* for index, device in enumerate(self.devices): the iterations from index on.
RECURSIVE OuterLoop(_, _)
OuterLoop(st, index) ==
    IF index > Len(st.devs) THEN st
    ELSE LET s1 == IF st.devs[index].interface = Csmi
                   THEN InnerLoop(st, index, 1)
                   ELSE st
             s2 == IF CapacityMarks(s1.devs[index], index, s1.to_delete)
                   THEN [s1 EXCEPT !.to_delete = Append(@, index)]
                   ELSE s1
         IN  OuterLoop(s2, index + 1)

\* A variant of Keep that deletes the marked indices one after the other
\* from the list itself, each deletion shifting the elements behind it.
RECURSIVE Keep_shifting(_, _)
Keep_shifting(devs, to_delete) ==
    IF to_delete = <<>> THEN devs
    ELSE LET i == Head(to_delete)
             rest == IF i <= Len(devs)
                     THEN SubSeq(devs, 1, i-1) \o SubSeq(devs, i+1, Len(devs))
                     ELSE devs
         IN  Keep_shifting(rest, Tail(to_delete))

\* [v for i, v in enumerate(self.devices) if i not in to_delete]
Keep(devs, to_delete) ==
    LET F[i \in 0..Len(devs)] ==
            IF i = 0 THEN <<>>
            ELSE IF InList(i, to_delete) THEN F[i-1]
            ELSE Append(F[i-1], devs[i])
    IN  F[Len(devs)]

\* self.devices after _cleanup ran on devs.
Cleanup(devs) ==
    LET st == OuterLoop([devs |-> devs, to_delete |-> <<>>], 1)
    IN  Keep(st.devs, st.to_delete)

---------------------------------------------------------------------------
(* The two sorts that end _initialize.                                     *)

\* key=lambda device: device.name: the pairs of devs in key order.
DeviceNameLess(devs) ==
    {p \in (1..Len(devs)) \X (1..Len(devs)) :
        StrLess(devs[p[1]].name, devs[p[2]].name)}

\* key=lambda name: name: the key is the dict itself.  Python 2 orders two
\* dicts of the same keys by the value at the smallest key where they
\* differ ('interface' < 'name'), and None below every str.
DictLessPy2(a, b) ==
    IF a.interface # b.interface
    THEN \/ a.interface = None
         \/ b.interface # None /\ StrLess(a.interface, b.interface)
    ELSE StrLess(a.name, b.name)

\* The pairs of list in the order of their keys under Python 2.
DictOrderPy2(list) ==
    {p \in (1..Len(list)) \X (1..Len(list)) :
        DictLessPy2(list[p[1]], list[p[2]])}

\* Python 3 raises TypeError as soon as two dicts are compared, which
\* list.sort does for every list of two or more.
SortRaisesPy3(list) == Len(list) >= 2

---------------------------------------------------------------------------
(* What the scan command may print.                                        *)

RECURSIVE Concat(_)
Concat(ss) == IF ss = <<>> THEN <<>> ELSE Head(ss) \o Concat(Tail(ss))

RECURSIVE Join(_, _)
Join(ls, sep) ==
    IF ls = <<>> THEN <<>>
    ELSE IF Len(ls) = 1 THEN ls[1]
    ELSE ls[1] \o <<sep>> \o Join(Tail(ls), sep)

DashD == <<" ","-","d"," ">>

LineSda == DevPrefix \o <<"s","d","a">> \o DashD \o Ata

LineSdb == DevPrefix \o <<"s","d","b">> \o DashD \o Ata

LineCsmi == DevPrefix \o Csmi \o <<"0",",","0">> \o DashD \o Csmi

LineFailed == DevPrefix \o <<"s","d","z">> \o <<" ">> \o FailedMark

ScanLines == {LineSda, LineSdb, LineCsmi, LineFailed, <<>>}

\* The lines of a scan that found nothing it could open.
NoResultLines == {LineFailed, <<>>}

\* Arbitrary text, for the parsing alone: up to MaxPieces pieces.
Pieces == {DevPrefix, <<"d","e","v","/">>, <<"s","d","a">>, Csmi,
           <<" ">>, <<"\t">>, <<"\n">>, FailedMark}

\* Popen('smartctl --scan-open', shell=True, ...) and communicate():
\*   oserror   the shell process cannot be spawned: Popen raises OSError;
\*   notfound  the shell runs and cannot start smartctl: exit status 127,
\*             a message on stderr, nothing on stdout;
\*   error     smartctl exits non-zero or writes to stderr, without results;
\*   ok        smartctl exits 0.
\* The exit status and _stderr are never read.
ScanStatuses == {"oserror", "notfound", "error", "ok"}

\* The lines a scan that ended with status may print, up to MaxLines of
\* them, '\n' between them.
LinesOf(status) ==
    CASE status = "ok" -> ScanLines
      [] status = "error" -> NoResultLines
      [] OTHER -> {}

---------------------------------------------------------------------------
(* DeviceList.__init__ and _initialize, step by step.                      *)

Init ==
    /\ pc = "new"
    /\ init \in BOOLEAN
    /\ dofulldevicescan \in BOOLEAN
    /\ stdout = None
    /\ lines = <<>>
    /\ devices = <<>>
    /\ simpledevicelist = <<>>
    /\ exc = "none"
    /\ calls = <<>>
    /\ scan = "none"
    /\ given = <<>>
    /\ runs = 0

\* __init__: the two lists are created empty; _initialize runs if init.
Construct ==
    /\ pc = "new"
    /\ devices' = <<>>
    /\ simpledevicelist' = <<>>
    /\ pc' = IF init THEN "scan" ELSE "done"
    /\ UNCHANGED <<init, dofulldevicescan, stdout, lines, exc, calls, scan,
                   given, runs>>

\* A variant of Scan that raises when the command exits non-zero.
Scan_checked ==
    /\ pc = "scan"
    /\ \E status \in ScanStatuses :
         /\ scan' = status
         /\ \/ /\ status \in {"oserror", "notfound", "error"}
               /\ pc' = "raised"
               /\ exc' = IF status = "oserror" THEN "OSError"
                         ELSE "CalledProcessError"
               /\ UNCHANGED <<stdout, lines>>
            \/ /\ status = "ok"
               /\ \E k \in 0..MaxLines : \E ls \in [1..k -> LinesOf(status)] :
                    /\ stdout' = Join(ls, "\n")
                    /\ lines' = Split(Join(ls, "\n"), "\n")
               /\ pc' = "loop"
               /\ UNCHANGED exc
    /\ UNCHANGED <<init, dofulldevicescan, devices, simpledevicelist, calls,
                   given, runs>>

\* Popen, communicate, decode and split('\n').  rescan_device_busses(),
\* called before it on Windows, changes nothing the DeviceList holds; the
\* output is taken to be valid UTF-8.
Scan ==
    /\ pc = "scan"
    /\ \E status \in ScanStatuses :
         /\ scan' = status
         /\ \/ /\ status = "oserror"
               /\ pc' = "raised"
               /\ exc' = "OSError"
               /\ UNCHANGED <<stdout, lines>>
            \/ /\ status # "oserror"
               /\ \E k \in 0..MaxLines : \E ls \in [1..k -> LinesOf(status)] :
                    /\ stdout' = Join(ls, "\n")
                    /\ lines' = Split(Join(ls, "\n"), "\n")
               /\ pc' = "loop"
               /\ UNCHANGED exc
    /\ UNCHANGED <<init, dofulldevicescan, devices, simpledevicelist, calls,
                   given, runs>>

\* One iteration of the for loop on a line that is skipped.
SkipLine ==
    /\ pc = "loop"
    /\ lines # <<>>
    /\ Skipped(Head(lines))
    /\ lines' = Tail(lines)
    /\ UNCHANGED <<pc, init, dofulldevicescan, stdout, devices,
                   simpledevicelist, exc, calls, scan, given, runs>>

\* One iteration on a line that is kept, without a Device() call.
ListLine ==
    /\ pc = "loop"
    /\ lines # <<>>
    /\ ~Skipped(Head(lines))
    /\ ~ShouldResolve(dofulldevicescan)
    /\ LET name == NameOf(Head(lines))
       IN  simpledevicelist' =
               Append(simpledevicelist, SimpleEntry(name, InterfaceOf(name)))
    /\ lines' = Tail(lines)
    /\ UNCHANGED <<pc, init, dofulldevicescan, stdout, devices, exc, calls,
                   scan, given, runs>>

\* One iteration on a line that is kept, with its Device() call; an
\* exception of the call is caught nowhere and leaves __init__.
ResolveLine ==
    /\ pc = "loop"
    /\ lines # <<>>
    /\ ~Skipped(Head(lines))
    /\ ShouldResolve(dofulldevicescan)
    /\ LET name == NameOf(Head(lines))
           interface == InterfaceOf(name)
       IN  /\ calls' = Append(calls, <<name, interface>>)
           /\ \E d \in Device(name, interface) :
                \/ /\ d = DeviceFailure
                   /\ pc' = "raised"
                   /\ exc' = "DeviceError"
                   /\ UNCHANGED <<devices, simpledevicelist, lines>>
                \/ /\ d # DeviceFailure
                   /\ devices' = Append(devices, d)
                   /\ simpledevicelist' =
                          Append(simpledevicelist, SimpleEntry(name, interface))
                   /\ lines' = Tail(lines)
                   /\ UNCHANGED <<pc, exc>>
    /\ UNCHANGED <<init, dofulldevicescan, stdout, scan, given, runs>>

\* A variant of CleanupCall in which _cleanup filters simpledevicelist too.
CleanupCall_both ==
    /\ pc = "loop"
    /\ lines = <<>>
    /\ given' = devices
    /\ devices' = Cleanup(devices)
    /\ simpledevicelist' =
           SelectSeq(simpledevicelist,
                     LAMBDA e : \E k \in 1..Len(Cleanup(devices)) :
                                   Cleanup(devices)[k].name = e.name)
    /\ runs' = runs + 1
    /\ pc' = "sortsimple"
    /\ UNCHANGED <<init, dofulldevicescan, stdout, lines, exc, calls, scan>>

\* self._cleanup(), once the loop is over.
CleanupCall ==
    /\ pc = "loop"
    /\ lines = <<>>
    /\ given' = devices
    /\ devices' = Cleanup(devices)
    /\ runs' = runs + 1
    /\ pc' = "sortsimple"
    /\ UNCHANGED <<init, dofulldevicescan, stdout, lines, simpledevicelist,
                   exc, calls, scan>>

\* self.simpledevicelist.sort(key=lambda name: name), under either Python:
\* the order of Python 2, or the TypeError of Python 3 (no list of fewer
\* than two is ever compared).
SortSimple ==
    /\ pc = "sortsimple"
    /\ \/ /\ simpledevicelist' = SortBy(simpledevicelist, DictOrderPy2(simpledevicelist))
          /\ pc' = "sortdevices"
          /\ UNCHANGED exc
       \/ /\ SortRaisesPy3(simpledevicelist)
          /\ pc' = "raised"
          /\ exc' = "TypeError"
          /\ UNCHANGED simpledevicelist
       \/ /\ ~SortRaisesPy3(simpledevicelist)
          /\ pc' = "sortdevices"
          /\ UNCHANGED <<simpledevicelist, exc>>
    /\ UNCHANGED <<init, dofulldevicescan, stdout, lines, devices, calls,
                   scan, given, runs>>

\* self.devices.sort(key=lambda device: device.name)
SortDevices ==
    /\ pc = "sortdevices"
    /\ devices' = SortBy(devices, DeviceNameLess(devices))
    /\ pc' = "done"
    /\ UNCHANGED <<init, dofulldevicescan, stdout, lines, simpledevicelist,
                   exc, calls, scan, given, runs>>

Next ==
    \/ Construct
    \/ Scan
    \/ SkipLine
    \/ ListLine
    \/ ResolveLine
    \/ CleanupCall
    \/ SortSimple
    \/ SortDevices

Spec == Init /\ [][Next]_vars

---------------------------------------------------------------------------
(* The loop alone, on arbitrary text, without Device() calls.              *)

InitParse ==
    /\ pc = "loop"
    /\ init = TRUE
    /\ dofulldevicescan = FALSE
    /\ \E k \in 0..MaxPieces : \E ps \in [1..k -> Pieces] : stdout = Concat(ps)
    /\ lines = Split(stdout, "\n")
    /\ devices = <<>>
    /\ simpledevicelist = <<>>
    /\ exc = "none"
    /\ calls = <<>>
    /\ scan = "ok"
    /\ given = <<>>
    /\ runs = 0

NextParse ==
    \/ SkipLine
    \/ ListLine
    \/ CleanupCall
    \/ SortSimple
    \/ SortDevices

SpecParse == InitParse /\ [][NextParse]_vars

---------------------------------------------------------------------------
(* _cleanup alone, on arbitrary device lists, run up to MaxRuns times.     *)

Interfaces == {Ata, Sata, Csmi, Scsi}

Serials == {None, S1, S2}

Capacities == {None, Cap500}

\* The name of the device at position i of a list: names are distinct.
DevName(i) == <<"s", "d", Lower[i]>>

\* The list of n devices with the attributes f gives each position.
DeviceList(n, f) ==
    [i \in 1..n |-> DeviceRec(DevName(i), f[i][1], f[i][2], f[i][3])]

InitCleanup ==
    /\ pc = "cleanup"
    /\ init = FALSE
    /\ dofulldevicescan = TRUE
    /\ stdout = None
    /\ lines = <<>>
    /\ \E n \in 0..MaxDevs :
         \E f \in [1..n -> Interfaces \X Serials \X Capacities] :
           devices = DeviceList(n, f)
    /\ simpledevicelist = <<>>
    /\ exc = "none"
    /\ calls = <<>>
    /\ scan = "none"
    /\ given = devices
    /\ runs = 0

RunCleanup ==
    /\ pc = "cleanup"
    /\ runs < MaxRuns
    /\ devices' = Cleanup(devices)
    /\ runs' = runs + 1
    /\ UNCHANGED <<pc, init, dofulldevicescan, stdout, lines,
                   simpledevicelist, exc, calls, scan, given>>

NextCleanup == RunCleanup

SpecCleanup == InitCleanup /\ [][NextCleanup]_vars

---------------------------------------------------------------------------
(* Properties of _cleanup, under SpecCleanup.                              *)

\* given holds exactly a csmi record at i and a sata record at j, with the
\* same serial number.
CsmiSataPair(i, j) ==
    /\ Len(given) = 2
    /\ {i, j} = {1, 2}
    /\ given[i].interface = Csmi
    /\ given[j].interface = Sata
    /\ given[i].serial # None
    /\ given[i].serial = given[j].serial

\* What C1 promises of a pair: the csmi record alone is left, with the
\* name of the sata record as its alias.
PairMerged(i, j) ==
    /\ Len(devices) = 1
    /\ devices[1].interface = Csmi
    /\ devices[1].name = given[i].name
    /\ devices[1].sd_name = given[j].name

\* C1 as stated: given one csmi and one sata record that share a serial,
\* in either order, _cleanup leaves exactly one record, the csmi one, whose
\* _sd_name is the name of the removed sata record.
C1_PairAlwaysMerged ==
    \A i, j \in 1..2 :
        (runs >= 1 /\ CsmiSataPair(i, j)) => PairMerged(i, j)

\* C1 as amended: the same, for a csmi record that has a capacity (one
\* without is removed like every record without a capacity).
C1_PairMergedWhenCsmiHasCapacity ==
    \A i, j \in 1..2 :
        (runs >= 1 /\ CsmiSataPair(i, j) /\ given[i].capacity # None)
            => PairMerged(i, j)

\* C1's case: the sata record comes first, the csmi record has a capacity,
\* and _cleanup ran.
C1_Witness ==
    /\ runs = 1
    /\ CsmiSataPair(2, 1)
    /\ given[2].capacity # None
    /\ devices = <<[given[2] EXCEPT !.sd_name = given[1].name]>>

\* C2: a record whose serial is None takes part in no serial match: an
\* ata/sata record with serial None and a capacity is never removed, and a
\* csmi record with serial None is given no _sd_name.
C2_NullSerialNeverMatches ==
    runs >= 1 =>
        /\ \A j \in 1..Len(given) :
              (IsAtaOrSata(given[j]) /\ given[j].serial = None
                                    /\ given[j].capacity # None)
                  => \E k \in 1..Len(devices) : devices[k].name = given[j].name
        /\ \A k \in 1..Len(devices) :
              (devices[k].interface = Csmi /\ devices[k].serial = None)
                  => devices[k].sd_name = None

\* C3: after _cleanup no record of devices is without a capacity.
C3_EveryDeviceHasCapacity ==
    runs >= 1 => \A k \in 1..Len(devices) : devices[k].capacity # None

\* C3's case: an ata record without capacity that a serial match marks
\* first, the csmi record that matches it, itself without capacity, and a
\* third record that stays.
C3_Witness ==
    /\ runs = 1
    /\ Len(given) = 3
    /\ given[1].interface = Ata /\ given[1].capacity = None
    /\ given[2].interface = Csmi /\ given[2].capacity = None
    /\ given[2].serial = given[1].serial
    /\ given[3].interface = Scsi /\ given[3].capacity # None
    /\ devices = <<given[3]>>

\* C5: a run of _cleanup on the outcome of an earlier run changes nothing:
\* it removes no record and sets no _sd_name.
C5_SecondRunChangesNothing == [][runs >= 1 => devices' = devices]_vars

\* C5's case: a first run removed a record and set an alias, and a second
\* run followed.
C5_Witness ==
    /\ runs = 2
    /\ Len(devices) < Len(given)
    /\ \E k \in 1..Len(devices) : devices[k].sd_name # None

---------------------------------------------------------------------------
(* The scan output read directly, for the statements about the loop.       *)

\* The positions of the line breaks of t.
Breaks(t) == {i \in 1..Len(t) : t[i] = "\n"}

\* The number of lines of t: one more than its line breaks.
LineCount(t) == Cardinality(Breaks(t)) + 1

\* The n-th line of t, without its line break: the text between the
\* (n-1)-th and the n-th line break, the ends of t standing in for the
\* breaks before the first line and after the last.
LineAt(t, n) ==
    LET br == Breaks(t)
        Nth(k) == IF k = 0 THEN 0
                  ELSE IF k > Cardinality(br) THEN Len(t) + 1
                  ELSE CHOOSE x \in br : Cardinality({y \in br : y <= x}) = k
    IN  SubSeq(t, Nth(n - 1) + 1, Nth(n) - 1)

\* The line holds the text failed: somewhere.
HasFailedMark(l) ==
    \E i \in 1..Len(l) :
        /\ i + Len(FailedMark) - 1 <= Len(l)
        /\ \A k \in 1..Len(FailedMark) : l[i+k-1] = FailedMark[k]

\* A line that yields a candidate: not empty and without failed:
KeptLine(l) == l # <<>> /\ ~HasFailedMark(l)

IsBlank(c) == c \in {" ", "\t"}

\* The first whitespace-delimited token of a line, <<>> if it has none.
FirstToken(l) ==
    LET solid == {i \in 1..Len(l) : ~IsBlank(l[i])}
    IN  IF solid = {} THEN <<>>
        ELSE LET a == CHOOSE i \in solid : \A k \in solid : i <= k
                 b == CHOOSE q \in a..Len(l) :
                          /\ \A r \in a..q : ~IsBlank(l[r])
                          /\ (q = Len(l) \/ IsBlank(l[q+1]))
             IN  SubSeq(l, a, b)

StartsWithDev(tok) ==
    /\ Len(tok) >= Len(DevPrefix)
    /\ \A k \in 1..Len(DevPrefix) : tok[k] = DevPrefix[k]

\* The name as C6 states it: the first whitespace-delimited token, without
\* a leading /dev/.
ClaimedName(l) ==
    LET tok == FirstToken(l)
    IN  IF StartsWithDev(tok) THEN SubSeq(tok, Len(DevPrefix) + 1, Len(tok))
        ELSE tok

\* The text of a line before its first space character.
UpToSpace(l) ==
    LET sp == {i \in 1..Len(l) : l[i] = " "}
    IN  IF sp = {} THEN l
        ELSE SubSeq(l, 1, (CHOOSE i \in sp : \A k \in sp : i <= k) - 1)

\* tok without any /dev/: the first occurrence is cut out, then those of
\* what follows it.
RECURSIVE WithoutAnyDev(_)
WithoutAnyDev(tok) ==
    LET at == {i \in 1..Len(tok) : StartsWithDev(SubSeq(tok, i, Len(tok)))}
    IN  IF at = {} THEN tok
        ELSE LET i == CHOOSE x \in at : \A y \in at : x <= y
             IN  SubSeq(tok, 1, i - 1)
                     \o WithoutAnyDev(SubSeq(tok, i + Len(DevPrefix), Len(tok)))

\* The name as amended: the text before the first space, without any /dev/.
AmendedName(l) == WithoutAnyDev(UpToSpace(l))

\* csmi for a name that begins with csmi, None otherwise.
HintOf(name) ==
    IF Len(name) >= 4 /\ \A k \in 1..4 : name[k] = Csmi[k] THEN Csmi ELSE None

\* The candidates of the first n lines of t, in the order of the lines;
\* stated says which of the two readings of the name is meant.
Candidates(t, n, stated) ==
    LET F[i \in 0..n] ==
            IF i = 0 THEN <<>>
            ELSE LET l == LineAt(t, i)
                     name == IF stated THEN ClaimedName(l) ELSE AmendedName(l)
                 IN  IF KeptLine(l)
                     THEN Append(F[i-1], [name |-> name,
                                          interface |-> HintOf(name)])
                     ELSE F[i-1]
    IN  F[n]

\* The lines of stdout the loop has been through.
Visited == LineCount(stdout) - Len(lines)

Count(seq, x) == Cardinality({i \in 1..Len(seq) : seq[i] = x})

\* a and b hold the same elements, each as often.
IsPermutation(a, b) ==
    /\ Len(a) = Len(b)
    /\ \A i \in 1..Len(a) : Count(a, a[i]) = Count(b, a[i])

\* The names of a list of records never decrease.
NamesAscend(list) ==
    \A i \in 1..(Len(list) - 1) : ~StrLess(list[i+1].name, list[i].name)

---------------------------------------------------------------------------
(* Properties of the loop, under SpecParse.                                *)

\* C6 as stated: the loop yields, in the order of the lines, one candidate
\* for each line that is not empty and holds no failed:, and none for any
\* other; its name is the line's first whitespace-delimited token without
\* a leading /dev/, its interface csmi exactly when the name begins so.
C6_CandidatesAsStated ==
    pc \in {"loop", "sortsimple"} =>
        simpledevicelist = Candidates(stdout, Visited, TRUE)

\* C6 as amended: the same, with the name being the text before the line's
\* first space character with every /dev/ removed.
C6_CandidatesBySpaceField ==
    pc \in {"loop", "sortsimple"} =>
        simpledevicelist = Candidates(stdout, Visited, FALSE)

\* C6's case: a line /dev/csmi and a line failed:, both visited.
C6_Witness ==
    /\ pc = "sortsimple"
    /\ stdout = DevPrefix \o Csmi \o <<"\n">> \o FailedMark
    /\ simpledevicelist = <<[name |-> Csmi, interface |-> Csmi]>>

---------------------------------------------------------------------------
(* Properties of __init__ and _initialize, under Spec.                     *)

\* C4: when _initialize is over, the names of devices never decrease, and
\* neither do the names of simpledevicelist.
C4_BothListsSortedByName ==
    pc = "done" => NamesAscend(devices) /\ NamesAscend(simpledevicelist)

\* C7: a Device() call that fails does not end the build.
C7_FailedDeviceDoesNotAbort == ~(pc = "raised" /\ exc = "DeviceError")

\* C8: without init nothing is scanned and both lists stay empty; without
\* dofulldevicescan no Device() call is made and devices stays empty, while
\* simpledevicelist receives the pair of every kept line.
C8_NothingResolvedUnlessAsked ==
    /\ ~init => /\ pc \in {"new", "done"}
                /\ scan = "none" /\ stdout = None
                /\ devices = <<>> /\ simpledevicelist = <<>> /\ calls = <<>>
    /\ ~dofulldevicescan => devices = <<>> /\ calls = <<>>
    /\ (init /\ ~dofulldevicescan /\ pc = "loop") =>
           simpledevicelist = Candidates(stdout, Visited, FALSE)

\* C8's case: a build without dofulldevicescan that ended with two entries.
C8_Witness ==
    /\ pc = "done"
    /\ init /\ ~dofulldevicescan
    /\ Len(simpledevicelist) = 2
    /\ devices = <<>>

\* C9: once the loop over a scan output is over, simpledevicelist holds one
\* entry for each kept line of it, whatever _cleanup removed from devices.
C9_SimpleListKeepsEveryCandidate ==
    (scan # "none" /\ (pc \in {"sortsimple", "sortdevices", "done"}
                         \/ exc = "TypeError")) =>
        IsPermutation(simpledevicelist,
                      Candidates(stdout, LineCount(stdout), FALSE))

\* C9's case: a full build that ended with an entry in simpledevicelist
\* whose device _cleanup removed.
C9_Witness ==
    /\ pc = "done"
    /\ dofulldevicescan
    /\ Len(devices) < Len(given)
    /\ \E i \in 1..Len(simpledevicelist) :
          \A k \in 1..Len(devices) :
              devices[k].name # simpledevicelist[i].name

\* C10 as stated: a scan utility that cannot be launched ends the build
\* with an error; one that runs and reports an error without results ends
\* it without one, both lists empty.
C10_UnlaunchableScanIsFatal ==
    /\ scan \in {"oserror", "notfound"} => pc = "raised"
    /\ scan = "error" =>
          /\ pc # "raised"
          /\ pc = "done" => devices = <<>> /\ simpledevicelist = <<>>

\* C10 as amended: the build ends with an error when the process of the
\* scan command cannot be spawned; when the shell runs and cannot start the
\* utility, or the utility reports an error without results, it ends
\* without an error, both lists empty.
C10_OnlySpawnFailureIsFatal ==
    /\ scan = "oserror" => pc = "raised" /\ exc = "OSError"
    /\ scan \in {"notfound", "error"} =>
          /\ pc # "raised"
          /\ pc = "done" => devices = <<>> /\ simpledevicelist = <<>>

\* C10's case: a build that ended after a scan that reported errors only.
C10_Witness ==
    /\ pc = "done"
    /\ scan = "error"
    /\ HasFailedMark(stdout)
    /\ devices = <<>> /\ simpledevicelist = <<>>

====
